---- MODULE Spec2Model ----
(***************************************************************************)
(* Model of lib/ansible/modules/net_tools/nmcli.py: the Nmcli class (the   *)
(* existence check, the per-type command synthesizers, create_connection,  *)
(* modify_connection, remove_connection) and main(), the reconciler.       *)
(*                                                                         *)
(* Encoding of Python values                                               *)
(*   None            the empty tuple <<>>                                  *)
(*   a str           a non-empty tuple of pieces, read as their            *)
(*                   concatenation: 'con' is <<"con">>, and                *)
(*                   ' '.join(['a','b']) is <<"a", " ", "b">>              *)
(*   a bool param    <<TRUE>> or <<FALSE>> (None when unset)               *)
(*   a list param    <<l>> with l a sequence of str (None when unset)      *)
(*   a command       a sequence of tokens, each a str or None              *)
(* The module is modelled after its imports succeeded (HAVE_DBUS and       *)
(* HAVE_NM_CLIENT true, nmcli found by get_bin_path).                      *)
(***************************************************************************)
EXTENDS Integers, Sequences, FiniteSets, TLC

VARIABLES
    params,      \* module.params: the desired ConnectionSpec of this host task
    check_mode,  \* module.check_mode of the current run
    inv,         \* the connections NetworkManager holds, in ListConnections order
    pc,          \* position of main() in the current run
    rc,          \* main's local rc (NoRc is Python None)
    err,         \* main's local err: 0 is '', i is the stderr of the run's i-th call
    calls,       \* history: the execute_command calls of the current run, in order
    disp,        \* history: which of modify_connection/create_connection main called
    outcome,     \* how the run ended: exit_json or fail_json and what it carried
    inv0,        \* history: the inventory when the current run started
    oob,         \* history: number of out-of-band inventory changes during this run
    prev,        \* history: summary of the previous run
    run,         \* number of runs started
    built        \* the cmd list a synthesizer returned, and which one built it

vars == <<params, check_mode, inv, pc, rc, err, calls, disp, outcome, inv0, oob, prev, run,
          built>>

\* Number of reconciliation runs (module invocations) in one behaviour.
MaxRuns == 3

\* Number of runs in one behaviour when another actor changes the inventory
\* or NetworkManager stops answering.
MaxRunsOOB == 1

\* Number of runs in one behaviour of the ethernet specs.
MaxRunsEthernet == 2

\* Longest dns4 list among the synthesizer inputs.
MaxDns == 4

\* Number of out-of-band inventory changes during one run.
MaxOOB == 1

None == <<>>
S(s) == <<s>>
NoRc == -1

----------------------------------------------------------------------------
(* Nmcli.__init__: the attributes the methods read.                         *)

RECURSIVE Join(_, _)
\* sep.join(l): the entries in order with sep between neighbours
Join(sep, l) ==
    IF l = <<>> THEN S("")
    ELSE IF Len(l) = 1 THEN l[1]
    ELSE l[1] \o sep \o Join(sep, Tail(l))

InitDns4_first(raw) ==
    IF raw # None /\ raw[1] # <<>> THEN raw[1][1] ELSE None

\* self.dns4 = ' '.join(params['dns4']) if params.get('dns4') else None
InitDns4(raw) ==
    IF raw # None /\ raw[1] # <<>> THEN Join(S(" "), raw[1]) ELSE None

Nmcli(p) == [p EXCEPT !.dns4 = InitDns4(p.dns4)]

nmcli_bin == S("/usr/bin/nmcli")

bool_to_string(boolean) == IF boolean THEN S("yes") ELSE S("no")

----------------------------------------------------------------------------
(* Command synthesizers.                                                    *)

\* if self.<f> is not None: cmd.append(key); cmd.append(self.<f>)
Pair(key, val) == IF val # None THEN <<S(key), val>> ELSE <<>>

\* if self.autoconnect is not None: append 'autoconnect', bool_to_string(..)
AutoPair(self) ==
    IF self.autoconnect # None
    THEN <<S("autoconnect"), bool_to_string(self.autoconnect[1])>>
    ELSE <<>>

NameTokens_nofallback(self) ==
    <<S("con-name")>>
    \o (IF self.conn_name # None THEN <<self.conn_name>> ELSE <<>>)
    \o <<S("ifname")>>
    \o (IF self.ifname # None THEN <<self.ifname>> ELSE <<>>)

\* con-name <conn_name, else ifname> ifname <ifname, else conn_name>
NameTokens(self) ==
    <<S("con-name")>>
    \o (IF self.conn_name # None THEN <<self.conn_name>>
        ELSE IF self.ifname # None THEN <<self.ifname>> ELSE <<>>)
    \o <<S("ifname")>>
    \o (IF self.ifname # None THEN <<self.ifname>>
        ELSE IF self.conn_name # None THEN <<self.conn_name>> ELSE <<>>)

\* the ip4, gw4, ip6, gw6 pairs of the create commands
AddrTokens(self) ==
    Pair("ip4", self.ip4) \o Pair("gw4", self.gw4)
    \o Pair("ip6", self.ip6) \o Pair("gw6", self.gw6)

\* the ipv4.* and ipv6.* pairs of the modify commands
ModAddrTokens(self) ==
    Pair("ipv4.address", self.ip4) \o Pair("ipv4.gateway", self.gw4)
    \o Pair("ipv4.dns", self.dns4)
    \o Pair("ipv6.address", self.ip6) \o Pair("ipv6.gateway", self.gw6)
    \o Pair("ipv6.dns", self.dns6)

create_connection_team(self) ==
    <<nmcli_bin, S("con"), S("add"), S("type"), S("team")>>
    \o NameTokens(self) \o AddrTokens(self) \o AutoPair(self)

modify_connection_team(self) ==
    <<nmcli_bin, S("con"), S("mod"), self.conn_name>>
    \o ModAddrTokens(self) \o AutoPair(self)

\* 'master' is always appended, and self.master after it whenever conn_name is set
MasterTokens(self) ==
    <<S("master")>> \o (IF self.conn_name # None THEN <<self.master>> ELSE <<>>)

create_connection_team_slave(self) ==
    <<nmcli_bin, S("connection"), S("add"), S("type"), self.type>>
    \o NameTokens(self) \o MasterTokens(self)

modify_connection_team_slave(self) ==
    <<nmcli_bin, S("con"), S("mod"), self.conn_name, S("connection.master"), self.master>>
    \o Pair("802-3-ethernet.mtu", self.mtu)

\* updelay, arp-interval and arp-ip-target are each guarded by downdelay
create_connection_bond(self) ==
    <<nmcli_bin, S("con"), S("add"), S("type"), S("bond")>>
    \o NameTokens(self) \o Pair("mode", self.mode)
    \o AddrTokens(self) \o AutoPair(self)
    \o Pair("miimon", self.miimon)
    \o Pair("downdelay", self.downdelay)
    \o (IF self.downdelay # None THEN <<S("updelay"), self.updelay>> ELSE <<>>)
    \o (IF self.downdelay # None THEN <<S("arp-interval"), self.arp_interval>> ELSE <<>>)
    \o (IF self.downdelay # None THEN <<S("arp-ip-target"), self.arp_ip_target>> ELSE <<>>)
    \o Pair("primary", self.primary)

modify_connection_bond(self) ==
    <<nmcli_bin, S("con"), S("mod"), self.conn_name>>
    \o ModAddrTokens(self) \o AutoPair(self)

create_connection_bond_slave(self) ==
    <<nmcli_bin, S("connection"), S("add"), S("type"), S("bond-slave")>>
    \o NameTokens(self) \o MasterTokens(self)

modify_connection_bond_slave(self) ==
    <<nmcli_bin, S("con"), S("mod"), self.conn_name, S("connection.master"), self.master>>

create_connection_ethernet(self, conn_type) ==
    <<nmcli_bin, S("con"), S("add"), S("type")>>
    \o (IF conn_type = "ethernet" THEN <<S("ethernet")>>
        ELSE IF conn_type = "generic" THEN <<S("generic")>> ELSE <<>>)
    \o NameTokens(self) \o AddrTokens(self) \o AutoPair(self)

modify_connection_ethernet(self, conn_type) ==
    <<nmcli_bin, S("con"), S("mod"), self.conn_name>>
    \o ModAddrTokens(self)
    \o (IF self.mtu # None /\ conn_type = "ethernet"
        THEN <<S("802-3-ethernet.mtu"), self.mtu>> ELSE <<>>)
    \o AutoPair(self)

create_connection_bridge(self) == <<nmcli_bin>>
modify_connection_bridge(self) == <<nmcli_bin>>
create_connection_vlan(self) == <<nmcli_bin>>
modify_connection_vlan(self) == <<nmcli_bin>>

down_cmd(self) == <<nmcli_bin, S("con"), S("down"), self.conn_name>>
up_cmd(self) == <<nmcli_bin, S("con"), S("up"), self.conn_name>>
remove_cmd_down(self) == down_cmd(self)
remove_cmd(self) == <<nmcli_bin, S("con"), S("del"), self.conn_name>>

----------------------------------------------------------------------------
(* Connection Inventory and Existence Matcher.                              *)

RECURSIVE list_connection_info(_)
\* The flat list built from the records: id, uuid, type and the settings dump
\* (a Python list of strings) of each connection, one after the other.
list_connection_info(records) ==
    IF records = <<>> THEN <<>>
    ELSE << [isstr |-> TRUE,  v |-> records[1].id],
            [isstr |-> TRUE,  v |-> records[1].uuid],
            [isstr |-> TRUE,  v |-> records[1].type],
            [isstr |-> FALSE, v |-> None] >>
         \o list_connection_info(Tail(records))

connection_exists_never(self, records) == FALSE

\* for con_item in connections: if self.conn_name == con_item: return True
\* (falling off the loop returns None, which main reads as false)
connection_exists(self, records) ==
    LET connections == list_connection_info(records)
    IN  \E i \in 1..Len(connections) :
            connections[i].isstr /\ connections[i].v = self.conn_name

----------------------------------------------------------------------------
(* Executor: execute_command hands cmd to module.run_command.  The exit     *)
(* code is the environment's choice: 0, or a non-zero code; the model gives *)
(* the i-th call of a run the failure code i and the stderr i, so that a    *)
(* result can be traced to the call that produced it.                       *)

UuidPool == <<S("uuid-1"), S("uuid-2"), S("uuid-3"), S("uuid-4"),
              S("uuid-5"), S("uuid-6"), S("uuid-7"), S("uuid-8")>>

\* What a call that exited 0 did to the inventory: 'add' stores a connection
\* under the con-name token, 'del' deletes the connections of that name.
execute_effect(records, c) ==
    IF ~c.islist \/ Len(c.args) < 4 THEN records
    ELSE IF c.args[3] = S("add") /\ Len(c.args) >= 7
         THEN Append(records, [id   |-> c.args[7],
                               uuid |-> UuidPool[Len(records) + 1],
                               type |-> c.args[5]])
    ELSE IF c.args[3] = S("del")
         THEN LET Keep(r) == r.id # c.args[4] IN SelectSeq(records, Keep)
    ELSE records

\* the record of the idx-th call of the run: its argument and its result
execute_command(cmd, islist, idx, ok) ==
    [islist |-> islist, args |-> cmd, rc |-> IF ok THEN 0 ELSE idx, err |-> idx]

RECURSIVE execute_all(_, _)
\* the inventory after the calls cs, in order
execute_all(records, cs) ==
    IF cs = <<>> THEN records
    ELSE execute_all(IF cs[1].rc = 0 THEN execute_effect(records, cs[1]) ELSE records,
                     Tail(cs))

----------------------------------------------------------------------------
(* create_connection and modify_connection.                                 *)

Arg(cmd) == [islist |-> TRUE, args |-> cmd]
\* cmd = self.up_connection() leaves the (rc, out, err) tuple in cmd; what
\* run_command answers to an argument that is no list is the framework's
\* business, so its exit code is left open like that of any other call
UpResult == [islist |-> FALSE, args |-> <<>>]

\* create, modify, up_connection, then execute_command(cmd) on what cmd holds
TwoPhase(self, create, modify) ==
    <<Arg(create), Arg(modify), Arg(up_cmd(self)), UpResult>>

\* The arguments of the execute_command calls create_connection makes, in
\* order; the result of the last one is what it returns.  The empty sequence
\* stands for cmd == [] at the end: fail_json, no call.
create_connection(self) ==
    IF self.type = S("team") THEN
        IF self.dns4 # None \/ self.dns6 # None
        THEN TwoPhase(self, create_connection_team(self), modify_connection_team(self))
        ELSE <<Arg(create_connection_team(self))>>
    ELSE IF self.type = S("team-slave") THEN
        IF self.mtu # None
        THEN <<Arg(create_connection_team_slave(self)),
               Arg(modify_connection_team_slave(self)),
               Arg(modify_connection_team_slave(self))>>
        ELSE <<Arg(create_connection_team_slave(self))>>
    ELSE IF self.type = S("bond") THEN
        IF self.mtu # None \/ self.dns4 # None \/ self.dns6 # None
        THEN TwoPhase(self, create_connection_bond(self), modify_connection_bond(self))
        ELSE <<Arg(create_connection_bond(self))>>
    ELSE IF self.type = S("bond-slave") THEN
        <<Arg(create_connection_bond_slave(self))>>
    ELSE IF self.type = S("ethernet") THEN
        IF self.mtu # None \/ self.dns4 # None \/ self.dns6 # None
        THEN TwoPhase(self, create_connection_ethernet(self, "ethernet"),
                            modify_connection_ethernet(self, "ethernet"))
        ELSE <<Arg(create_connection_ethernet(self, "ethernet"))>>
    ELSE IF self.type = S("bridge") THEN <<Arg(create_connection_bridge(self))>>
    ELSE IF self.type = S("vlan") THEN <<Arg(create_connection_vlan(self))>>
    ELSE IF self.type = S("generic") THEN
        <<Arg(create_connection_ethernet(self, "generic"))>>
    ELSE <<>>

modify_connection_default_type(self) ==
    IF self.type = S("team") THEN modify_connection_team(self)
    ELSE IF self.type = S("team-slave") THEN modify_connection_team_slave(self)
    ELSE IF self.type = S("bond") THEN modify_connection_bond(self)
    ELSE IF self.type = S("bond-slave") THEN modify_connection_bond_slave(self)
    ELSE IF self.type = S("bridge") THEN modify_connection_bridge(self)
    ELSE IF self.type = S("vlan") THEN modify_connection_vlan(self)
    ELSE IF self.type = S("generic") THEN modify_connection_ethernet(self, "generic")
    ELSE modify_connection_ethernet(self, "ethernet")

\* The command modify_connection executes; [] (no call, fail_json) without a type.
modify_connection(self) ==
    IF self.type = S("team") THEN modify_connection_team(self)
    ELSE IF self.type = S("team-slave") THEN modify_connection_team_slave(self)
    ELSE IF self.type = S("bond") THEN modify_connection_bond(self)
    ELSE IF self.type = S("bond-slave") THEN modify_connection_bond_slave(self)
    ELSE IF self.type = S("ethernet") THEN modify_connection_ethernet(self, "ethernet")
    ELSE IF self.type = S("bridge") THEN modify_connection_bridge(self)
    ELSE IF self.type = S("vlan") THEN modify_connection_vlan(self)
    ELSE IF self.type = S("generic") THEN modify_connection_ethernet(self, "generic")
    ELSE <<>>

----------------------------------------------------------------------------
(* The inputs of the model.                                                 *)

\* one connection NetworkManager may already hold
Bond0 == [id |-> S("bond0"), uuid |-> S("a1b2-uuid"), type |-> S("bond")]

\* conn_name is required; it may be any string, among them another
\* connection's UUID or a type string
ConnNames == {S("bond0"), S("a1b2-uuid"), S("bond")}

TypeChoices == {S("ethernet"), S("team"), S("team-slave"), S("bond"),
                S("bond-slave"), S("bridge"), S("vlan"), S("generic")}

SlaveTypes == {S("team-slave"), S("bond-slave")}

\* the ConnectionSpecs reconciled here: argument_spec with its defaults
\* (mode defaults to balance-rr, every other field modelled defaults to None)
SpecParams ==
    { p \in [ state         : {"present", "absent"},
              conn_name     : ConnNames,
              type          : {None} \cup TypeChoices,
              master        : {None, S("team0")},
              ifname        : {None, S("em1")},
              ip4           : {None, S("192.0.2.100/24")},
              gw4           : {None},
              dns4          : {None, <<<<>>>>, <<<<S("192.0.2.53"), S("198.51.100.53")>>>>},
              ip6           : {None},
              gw6           : {None},
              dns6          : {None, S("2001:db8::53")},
              mtu           : {None, S("9000")},
              autoconnect   : {None},
              mode          : {S("balance-rr")},
              miimon        : {None},
              downdelay     : {None},
              updelay       : {None},
              arp_interval  : {None},
              arp_ip_target : {None},
              primary       : {None} ] :
        /\ p.type \notin SlaveTypes => (p.master = None /\ p.ifname = None)
        /\ p.type \notin {S("ethernet"), S("bond")} => p.ip4 = None }

NoBuilt == [op |-> "none", cmd |-> <<>>]

NoPrev == [valid |-> FALSE, check_mode |-> FALSE, inv0 |-> <<>>, kind |-> "running",
           changed |-> FALSE, disp |-> {}, ncalls |-> 0, partial |-> FALSE]

Running == [kind |-> "running", changed |-> FALSE, rc |-> NoRc, msg |-> 0]

Init ==
    /\ params \in SpecParams
    /\ inv \in {<<>>, <<Bond0>>}
    /\ check_mode = FALSE
    /\ pc = "idle"
    /\ rc = NoRc
    /\ err = 0
    /\ calls = <<>>
    /\ disp = {}
    /\ outcome = Running
    /\ inv0 = <<>>
    /\ oob = 0
    /\ prev = NoPrev
    /\ run = 0
    /\ built = NoBuilt

----------------------------------------------------------------------------
(* main().                                                                  *)

self == Nmcli(params)

\* module.exit_json(changed=...): the run ends as a success
exit_json(changed) ==
    /\ outcome' = [kind |-> "ok", changed |-> changed, rc |-> NoRc, msg |-> 0]
    /\ pc' = "done"

\* module.fail_json(msg=..., rc=...): the run ends as a failure; kind tells
\* the configuration errors (a fixed message, no rc) from the failures that
\* carry an Executor call's exit code and stderr
fail_json(kind, code, msg) ==
    /\ outcome' = [kind |-> kind, changed |-> FALSE, rc |-> code, msg |-> msg]
    /\ pc' = "done"

\* what the next run remembers of this one; partial tells that a Create's
\* first call exited 0 and its second call did not
Summary == [valid |-> TRUE, check_mode |-> check_mode, inv0 |-> inv0,
            kind |-> outcome.kind, changed |-> outcome.changed, disp |-> disp,
            ncalls |-> Len(calls),
            partial |-> /\ "create" \in disp
                        /\ Len(calls) >= 2
                        /\ calls[1].rc = 0
                        /\ calls[2].rc # 0]

check_issues_no_master(p) ==
    \/ p.conn_name = None
    \/ p.type = S("team-slave") /\ p.ifname = None

\* main's "check for issues": a missing name, a team-slave without master,
\* a team-slave without ifname; each is a fail_json
check_issues(p) ==
    \/ p.conn_name = None
    \/ p.type = S("team-slave") /\ p.master = None
    \/ p.type = S("team-slave") /\ p.ifname = None

\* A run starts: the framework builds module and Nmcli, (rc, out, err) =
\* (None, '', ''), and main makes its checks of the name and of a team-slave.
StartRunWithin(cm, limit) ==
    /\ pc \in {"idle", "done"}
    /\ run < limit
    /\ run' = run + 1
    /\ check_mode' = cm
    /\ prev' = IF pc = "done" THEN Summary ELSE prev
    /\ rc' = NoRc
    /\ err' = 0
    /\ calls' = <<>>
    /\ disp' = {}
    /\ inv0' = inv
    /\ oob' = 0
    /\ IF check_issues(params) THEN fail_json("config", NoRc, 0)
       ELSE /\ outcome' = Running
            /\ pc' = IF params.state = "absent" THEN "absent_exists"
                     ELSE "present_exists1"
    /\ UNCHANGED <<built, params, inv>>

StartRun(cm) == StartRunWithin(cm, MaxRuns)

\* state == 'absent': if nmcli.connection_exists(): check mode exits here
AbsentExists ==
    /\ pc = "absent_exists"
    /\ IF connection_exists(self, inv)
       THEN IF check_mode THEN exit_json(TRUE)
            ELSE pc' = "down" /\ UNCHANGED outcome
       ELSE pc' = "report" /\ UNCHANGED outcome
    /\ UNCHANGED <<built, params, check_mode, inv, rc, err, calls, disp, inv0, oob, prev, run>>

\* (rc, out, err) = nmcli.down_connection()
DownConnection ==
    /\ pc = "down"
    /\ \E ok \in BOOLEAN :
        LET c == execute_command(down_cmd(self), TRUE, Len(calls) + 1, ok)
        IN  /\ calls' = Append(calls, c)
            /\ rc' = c.rc
            /\ err' = c.err
            /\ inv' = execute_all(inv, <<c>>)
    /\ pc' = "remove"
    /\ UNCHANGED <<built, params, check_mode, disp, outcome, inv0, oob, prev, run>>

\* (rc, out, err) = nmcli.remove_connection(); if rc != 0: fail_json
RemoveConnection ==
    /\ pc = "remove"
    /\ \E ok \in BOOLEAN :
        LET c == execute_command(remove_cmd(self), TRUE, Len(calls) + 1, ok)
        IN  /\ calls' = Append(calls, c)
            /\ rc' = c.rc
            /\ err' = c.err
            /\ inv' = execute_all(inv, <<c>>)
            /\ IF c.rc # 0 THEN fail_json("actuation", c.rc, c.err)
               ELSE pc' = "report" /\ UNCHANGED outcome
    /\ UNCHANGED <<built, params, check_mode, disp, inv0, oob, prev, run>>

\* state == 'present': if nmcli.connection_exists(): check mode exits here
PresentExists ==
    /\ pc = "present_exists1"
    /\ IF connection_exists(self, inv)
       THEN IF check_mode THEN exit_json(TRUE)
            ELSE pc' = "modify" /\ UNCHANGED outcome
       ELSE pc' = "present_exists2" /\ UNCHANGED outcome
    /\ UNCHANGED <<built, params, check_mode, inv, rc, err, calls, disp, inv0, oob, prev, run>>

\* (rc, out, err) = nmcli.modify_connection()
ModifyConnection ==
    /\ pc = "modify"
    /\ disp' = disp \cup {"modify"}
    /\ LET cmd == modify_connection(self)
       IN  IF cmd # <<>>
           THEN \E ok \in BOOLEAN :
                  LET c == execute_command(cmd, TRUE, Len(calls) + 1, ok)
                  IN  /\ calls' = Append(calls, c)
                      /\ rc' = c.rc
                      /\ err' = c.err
                      /\ inv' = execute_all(inv, <<c>>)
                      /\ pc' = "present_exists2"
                      /\ UNCHANGED outcome
           ELSE /\ fail_json("config", NoRc, 0)
                /\ UNCHANGED <<calls, rc, err, inv>>
    /\ UNCHANGED <<built, params, check_mode, inv0, oob, prev, run>>

\* if not nmcli.connection_exists(): check mode exits here
PresentNotExists ==
    /\ pc = "present_exists2"
    /\ IF ~connection_exists(self, inv)
       THEN IF check_mode THEN exit_json(TRUE)
            ELSE pc' = "create" /\ UNCHANGED outcome
       ELSE pc' = "report" /\ UNCHANGED outcome
    /\ UNCHANGED <<built, params, check_mode, inv, rc, err, calls, disp, inv0, oob, prev, run>>

\* (rc, out, err) = nmcli.create_connection()
CreateConnection ==
    /\ pc = "create"
    /\ disp' = disp \cup {"create"}
    /\ LET plan == create_connection(self)
           n == Len(calls)
       IN  IF plan # <<>>
           THEN \E oks \in [1..Len(plan) -> BOOLEAN] :
                  LET cs == [i \in 1..Len(plan) |->
                               execute_command(plan[i].args, plan[i].islist, n + i, oks[i])]
                      last == cs[Len(cs)]
                  IN  /\ calls' = calls \o cs
                      /\ rc' = last.rc
                      /\ err' = last.err
                      /\ inv' = execute_all(inv, cs)
                      /\ pc' = "report"
                      /\ UNCHANGED outcome
           ELSE /\ fail_json("config", NoRc, 0)
                /\ UNCHANGED <<calls, rc, err, inv>>
    /\ UNCHANGED <<built, params, check_mode, inv0, oob, prev, run>>

Report_by_difference ==
    /\ pc = "report"
    /\ IF params.state = "present" /\ rc # NoRc /\ rc # 0
       THEN fail_json("actuation", rc, err)
       ELSE exit_json(inv # inv0)
    /\ UNCHANGED <<built, params, check_mode, inv, rc, err, calls, disp, inv0, oob, prev, run>>

Report_unchecked ==
    /\ pc = "report"
    /\ exit_json(rc # NoRc)
    /\ UNCHANGED <<built, params, check_mode, inv, rc, err, calls, disp, inv0, oob, prev, run>>

\* present: if rc is not None and rc != 0: fail_json(msg=err, rc=rc);
\* then result['changed'] = (rc is not None); module.exit_json(**result)
Report ==
    /\ pc = "report"
    /\ IF params.state = "present" /\ rc # NoRc /\ rc # 0
       THEN fail_json("actuation", rc, err)
       ELSE exit_json(rc # NoRc)
    /\ UNCHANGED <<built, params, check_mode, inv, rc, err, calls, disp, inv0, oob, prev, run>>

\* Another actor adds or deletes the named connection while a run is under way.
OutOfBand ==
    /\ pc \notin {"idle", "done"}
    /\ oob < MaxOOB
    /\ oob' = oob + 1
    /\ inv' = IF \E i \in 1..Len(inv) : inv[i].id = params.conn_name
              THEN LET Keep(r) == r.id # params.conn_name IN SelectSeq(inv, Keep)
              ELSE Append(inv, [id |-> params.conn_name,
                                uuid |-> UuidPool[Len(inv) + 1],
                                type |-> S("802-3-ethernet")])
    /\ UNCHANGED <<built, params, check_mode, pc, rc, err, calls, disp, outcome, inv0, prev, run>>

Next ==
    \/ \E cm \in BOOLEAN : StartRun(cm)
    \/ AbsentExists
    \/ DownConnection
    \/ RemoveConnection
    \/ PresentExists
    \/ ModifyConnection
    \/ PresentNotExists
    \/ CreateConnection
    \/ Report

Spec == Init /\ [][Next]_vars

\* The same program with another actor changing the inventory during a run.
NextOOB ==
    \/ \E cm \in BOOLEAN : StartRunWithin(cm, MaxRunsOOB)
    \/ AbsentExists
    \/ DownConnection
    \/ RemoveConnection
    \/ PresentExists
    \/ ModifyConnection
    \/ PresentNotExists
    \/ CreateConnection
    \/ Report
    \/ OutOfBand

SpecOOB == Init /\ [][NextOOB]_vars

----------------------------------------------------------------------------
(* NetworkManager not answering on the system bus.                          *)

\* list_connection_info: bus.get_object/ListConnections raises DBusException
\* and the except clause calls fail_json; reached through connection_exists
\* at any of main's three existence checks
ListConnectionsFails ==
    /\ pc \in {"absent_exists", "present_exists1", "present_exists2"}
    /\ fail_json("discovery", NoRc, 0)
    /\ UNCHANGED <<built, params, check_mode, inv, rc, err, calls, disp, inv0, oob, prev, run>>

NextDiscovery ==
    \/ \E cm \in BOOLEAN : StartRunWithin(cm, MaxRunsOOB)
    \/ AbsentExists
    \/ DownConnection
    \/ RemoveConnection
    \/ PresentExists
    \/ ModifyConnection
    \/ PresentNotExists
    \/ CreateConnection
    \/ Report
    \/ ListConnectionsFails

SpecDiscovery == Init /\ [][NextDiscovery]_vars

----------------------------------------------------------------------------
(* Ethernet specs with every address field set or unset.                    *)

Eth1 == [id |-> S("my-eth1"), uuid |-> S("c3d4-uuid"), type |-> S("802-3-ethernet")]

\* a spec with only the name given; mode has its argument_spec default
Unset ==
    [ state |-> "present", conn_name |-> S("my-eth1"), type |-> None,
      master |-> None, ifname |-> None, ip4 |-> None, gw4 |-> None,
      dns4 |-> None, ip6 |-> None, gw6 |-> None, dns6 |-> None, mtu |-> None,
      autoconnect |-> None, mode |-> S("balance-rr"), miimon |-> None,
      downdelay |-> None, updelay |-> None, arp_interval |-> None,
      arp_ip_target |-> None, primary |-> None ]

AddrFields ==
    [ ifname      : {None, S("eth1")},
      ip4         : {None, S("192.0.2.100/24")},
      gw4         : {None, S("192.0.2.1")},
      ip6         : {None, S("2001:db8::100/64")},
      gw6         : {None, S("2001:db8::1")},
      autoconnect : {None, <<TRUE>>, <<FALSE>>} ]

WithAddr(p, f) ==
    [p EXCEPT !.ifname = f.ifname, !.ip4 = f.ip4, !.gw4 = f.gw4,
              !.ip6 = f.ip6, !.gw6 = f.gw6, !.autoconnect = f.autoconnect]

EthernetParams ==
    { [WithAddr(Unset, f) EXCEPT !.type = S("ethernet"), !.dns4 = d, !.mtu = m] :
        f \in AddrFields,
        d \in {None, <<<<S("192.0.2.53"), S("198.51.100.53")>>>>},
        m \in {None, S("1500")} }
    \cup { [Unset EXCEPT !.type = S("ethernet"), !.state = "absent"] }

InitEthernet ==
    /\ params \in EthernetParams
    /\ inv \in {<<>>, <<Eth1>>}
    /\ check_mode = FALSE
    /\ pc = "idle"
    /\ rc = NoRc
    /\ err = 0
    /\ calls = <<>>
    /\ disp = {}
    /\ outcome = Running
    /\ inv0 = <<>>
    /\ oob = 0
    /\ prev = NoPrev
    /\ run = 0
    /\ built = NoBuilt

NextEthernet ==
    \/ \E cm \in BOOLEAN : StartRunWithin(cm, MaxRunsEthernet)
    \/ AbsentExists
    \/ DownConnection
    \/ RemoveConnection
    \/ PresentExists
    \/ ModifyConnection
    \/ PresentNotExists
    \/ CreateConnection
    \/ Report

SpecEthernet == InitEthernet /\ [][NextEthernet]_vars

----------------------------------------------------------------------------
(* The synthesizers on their own: create_connection's and                   *)
(* modify_connection's cmd for specs of every type, with every optional     *)
(* field set or unset.                                                      *)

DnsPool == << S("192.0.2.53"), S("198.51.100.53"), S("203.0.113.53"),
              S("192.0.2.54"), S("198.51.100.54"), S("203.0.113.54") >>

\* dns4 lists: every length up to MaxDns, and one in another order
DnsLists ==
    { SubSeq(DnsPool, 1, n) : n \in 0..MaxDns } \cup { <<DnsPool[2], DnsPool[1]>> }

DnsFields ==
    [ dns4 : {None, <<<<DnsPool[1], DnsPool[2]>>>>},
      dns6 : {None, S("2001:db8::53")},
      mtu  : {None, S("1500")} ]

WithDns(p, f) == [p EXCEPT !.dns4 = f.dns4, !.dns6 = f.dns6, !.mtu = f.mtu]

BondFields ==
    [ mode          : {S("balance-rr"), S("active-backup")},
      miimon        : {None, S("100")},
      downdelay     : {None, S("200")},
      updelay       : {None, S("300")},
      arp_interval  : {None, S("400")},
      arp_ip_target : {None, S("192.0.2.7")},
      primary       : {None, S("eth1")} ]

WithBond(p, f) ==
    [p EXCEPT !.mode = f.mode, !.miimon = f.miimon, !.downdelay = f.downdelay,
              !.updelay = f.updelay, !.arp_interval = f.arp_interval,
              !.arp_ip_target = f.arp_ip_target, !.primary = f.primary]

SynthParams ==
    { [WithDns(WithAddr(Unset, a), d) EXCEPT !.type = t] :
        a \in AddrFields, d \in DnsFields,
        t \in {S("team"), S("ethernet"), S("generic")} }
    \cup { [WithBond(WithDns(WithAddr(Unset, a), d), b) EXCEPT !.type = S("bond")] :
              a \in AddrFields, d \in DnsFields, b \in BondFields }
    \cup { [Unset EXCEPT !.type = t, !.ifname = i, !.master = m, !.mtu = u] :
              t \in SlaveTypes, i \in {None, S("eth1")},
              m \in {None, S("team0")}, u \in {None, S("1500")} }
    \cup { [Unset EXCEPT !.type = t] : t \in {S("bridge"), S("vlan")} }
    \cup { [Unset EXCEPT !.type = t, !.dns4 = <<l>>] :
              t \in {S("team"), S("bond"), S("ethernet"), S("generic")},
              l \in DnsLists }

InitSynth ==
    /\ params \in SynthParams
    /\ inv = <<>>
    /\ check_mode = FALSE
    /\ pc = "idle"
    /\ rc = NoRc
    /\ err = 0
    /\ calls = <<>>
    /\ disp = {}
    /\ outcome = Running
    /\ inv0 = <<>>
    /\ oob = 0
    /\ prev = NoPrev
    /\ run = 0
    /\ built = NoBuilt

\* the cmd create_connection builds first: the create list of the spec's type
BuildCreate ==
    /\ built.op # "create"
    /\ built' = [op |-> "create", cmd |-> create_connection(self)[1].args]
    /\ UNCHANGED <<params, check_mode, inv, pc, rc, err, calls, disp, outcome, inv0,
                   oob, prev, run>>

\* the cmd modify_connection builds: the modify list of the spec's type
BuildModify ==
    /\ built.op # "modify"
    /\ built' = [op |-> "modify", cmd |-> modify_connection(self)]
    /\ UNCHANGED <<params, check_mode, inv, pc, rc, err, calls, disp, outcome, inv0,
                   oob, prev, run>>

NextSynth ==
    \/ BuildCreate
    \/ BuildModify

SpecSynth == InitSynth /\ [][NextSynth]_vars

----------------------------------------------------------------------------
(* Vocabulary of the claims.                                                *)

\* some record's name field equals the desired connection name
NameMatch(records) == \E i \in 1..Len(records) : records[i].id = params.conn_name

\* main's team-slave checks reject the spec before the state is looked at
TeamSlaveRejected ==
    params.type = S("team-slave") /\ (params.master = None \/ params.ifname = None)

Finished == pc = "done"
RealRun == ~check_mode
Success == outcome.kind = "ok"
ConfigError == outcome.kind = "config"

\* the run failed carrying the exit code and the stderr of call c
FailedWith(c) ==
    outcome.kind = "actuation" /\ outcome.rc = c.rc /\ outcome.msg = c.err

\* the create argument list of the spec's type
TypeCreate ==
    IF self.type = S("team") THEN create_connection_team(self)
    ELSE IF self.type = S("team-slave") THEN create_connection_team_slave(self)
    ELSE IF self.type = S("bond") THEN create_connection_bond(self)
    ELSE IF self.type = S("bond-slave") THEN create_connection_bond_slave(self)
    ELSE IF self.type = S("ethernet") THEN create_connection_ethernet(self, "ethernet")
    ELSE IF self.type = S("generic") THEN create_connection_ethernet(self, "generic")
    ELSE <<nmcli_bin>>

\* the modify argument list of the spec's type
TypeModify ==
    IF self.type = S("team") THEN modify_connection_team(self)
    ELSE IF self.type = S("team-slave") THEN modify_connection_team_slave(self)
    ELSE IF self.type = S("bond") THEN modify_connection_bond(self)
    ELSE IF self.type = S("bond-slave") THEN modify_connection_bond_slave(self)
    ELSE IF self.type = S("ethernet") THEN modify_connection_ethernet(self, "ethernet")
    ELSE IF self.type = S("generic") THEN modify_connection_ethernet(self, "generic")
    ELSE <<nmcli_bin>>

\* the run's create_connection went through create and then modify
TwoPhaseTaken ==
    /\ "create" \in disp
    /\ Len(calls) >= 2
    /\ calls[1].args = TypeCreate
    /\ calls[2].args = TypeModify

\* the two-phase conditions of the Two-Phase Apply Policy, per type
TwoPhaseExpected ==
    IF self.type = S("team") THEN self.dns4 # None \/ self.dns6 # None
    ELSE IF self.type = S("team-slave") THEN self.mtu # None
    ELSE IF self.type \in {S("bond"), S("ethernet"), S("generic")}
         THEN self.mtu # None \/ self.dns4 # None \/ self.dns6 # None
    ELSE FALSE

PolicyTypes == {S("team"), S("team-slave"), S("bond"), S("bond-slave"),
                S("ethernet"), S("generic")}

----------------------------------------------------------------------------
(* The claims.                                                              *)

\* C1: a spec with state=absent whose name matches no discovered record (by
\* the name field) makes no Executor call and ends successfully with
\* changed=false.  Stated for the non-dry runs of the specs that reach the
\* state dispatch, i.e. that main's team-slave checks let through.
C1_AbsentUnmatchedIsNoop ==
    (Finished /\ RealRun /\ params.state = "absent" /\ ~NameMatch(inv0)
        /\ ~TeamSlaveRejected)
    => (calls = <<>> /\ Success /\ ~outcome.changed)

\* C2: a spec with state=present and no matching record dispatches Create
\* exactly once and never Modify; and when such a run succeeded and the
\* connection now exists, the next run of the same spec dispatches Modify and
\* never Create.  Stated for the non-dry runs of the specs with a type that
\* reach the state dispatch.
C2_CreateThenModify ==
    /\ (Finished /\ params.state = "present" /\ RealRun /\ ~NameMatch(inv0)
            /\ params.type # None /\ ~TeamSlaveRejected)
       => disp = {"create"}
    /\ (Finished /\ params.state = "present" /\ RealRun
            /\ prev.valid /\ ~prev.check_mode /\ ~NameMatch(prev.inv0)
            /\ prev.kind = "ok" /\ NameMatch(inv0))
       => disp = {"modify"}

\* C3: a dry run makes no Executor call and reports the changed value the real
\* run of the same spec against the same inventory reports, a real run that
\* ends in a configuration error included.  Compared on a dry run followed by
\* a real run from the same inventory; real runs that fail in the Executor,
\* which no dry run can foresee, are left out, and so are the names that
\* equal a UUID or a type string of the inventory.
C3_DryRunAgrees ==
    (Finished /\ RealRun /\ prev.valid /\ prev.check_mode /\ prev.inv0 = inv0
        /\ outcome.kind # "actuation"
        /\ connection_exists(self, inv0) = NameMatch(inv0))
    => /\ prev.ncalls = 0
       /\ (prev.kind = "ok" /\ prev.changed) = (Success /\ outcome.changed)

\* C4: during a Create, a call of the sequence that exits non-zero ends the
\* run as a failure carrying that call's exit code and stderr, and no later
\* call follows the failed one.
C4_CreateStopsAtFailure ==
    (Finished /\ RealRun /\ "create" \in disp)
    => \A i \in 1..Len(calls) :
          calls[i].rc # 0 => (FailedWith(calls[i]) /\ i = Len(calls))

\* C5: a two-phase Create makes exactly three Executor calls: the type's
\* create list, the type's modify list, 'con up <name>'; each argument is a
\* synthesized list beginning with the tool path.
C5_TwoPhaseIsThreeCalls ==
    (Finished /\ TwoPhaseTaken)
    => /\ Len(calls) = 3
       /\ calls[1].args = TypeCreate
       /\ calls[2].args = TypeModify
       /\ calls[3].args = up_cmd(self)
       /\ \A i \in 1..Len(calls) :
             calls[i].islist /\ calls[i].args # <<>> /\ calls[i].args[1] = nmcli_bin

\* C6: Create is two-phase for team iff dns4 or dns6 is set, for team-slave
\* iff mtu is set, for bond, ethernet and generic iff mtu, dns4 or dns6 is
\* set, for bond-slave never; otherwise the single create call is the only
\* Executor call.
C6_TwoPhasePolicy ==
    (Finished /\ RealRun /\ "create" \in disp /\ self.type \in PolicyTypes)
    => /\ TwoPhaseTaken <=> TwoPhaseExpected
       /\ ~TwoPhaseExpected => (Len(calls) = 1 /\ calls[1].args = TypeCreate)

\* C7: the existence check answers true iff some record's name field equals
\* the desired name: main goes on to Deactivate or Modify only with a name
\* match, and passes them by only without one.
C7_ExistsIffNameMatch ==
    /\ pc \in {"down", "modify"} => NameMatch(inv)
    /\ (pc = "present_exists2" /\ disp = {}) => ~NameMatch(inv)
    /\ (pc = "report" /\ params.state = "absent" /\ calls = <<>>) => ~NameMatch(inv)

\* what C8 says of a run: Deactivate then Remove, and Remove's exit decides
AbsentApplied ==
    /\ Len(calls) = 2
    /\ calls[1].args = <<nmcli_bin, S("con"), S("down"), params.conn_name>>
    /\ calls[2].args = <<nmcli_bin, S("con"), S("del"), params.conn_name>>
    /\ calls[2].rc # 0 => FailedWith(calls[2])
    /\ calls[2].rc = 0 => (Success /\ outcome.changed)

\* C8 (as claimed): every non-dry run of a spec with state=absent and a
\* matching record calls Deactivate then Remove, fails with Remove's exit code
\* and stderr iff Remove exits non-zero, and otherwise succeeds with
\* changed=true.
C8_AbsentMatched_AsClaimed ==
    (Finished /\ RealRun /\ params.state = "absent" /\ NameMatch(inv0))
    => AbsentApplied

\* C8 (amended): the same of the specs main's team-slave checks let through;
\* a team-slave spec without master or ifname ends with a configuration error
\* and no Executor call instead.
C8_AbsentMatched ==
    (Finished /\ RealRun /\ params.state = "absent" /\ NameMatch(inv0))
    => IF TeamSlaveRejected THEN ConfigError /\ calls = <<>> ELSE AbsentApplied

\* C8 witness: Deactivate and Remove were called and Remove's failure ended the run
C8_Witness ==
    /\ Finished /\ RealRun /\ params.state = "absent" /\ NameMatch(inv0)
    /\ Len(calls) = 2 /\ calls[1].rc = 0 /\ calls[2].rc # 0
    /\ outcome.kind = "actuation"

\* what C9 says of a run: the type's Modify command alone, its exit decides
ModifyApplied ==
    /\ Len(calls) = 1
    /\ calls[1].args = TypeModify
    /\ calls[1].rc # 0 => FailedWith(calls[1])
    /\ calls[1].rc = 0 => Success

\* C9 (as claimed): every non-dry run of a spec with state=present, a type and
\* a matching record, the inventory unchanged during the run, makes the type's
\* Modify command its only Executor call; a non-zero exit fails the run with
\* that exit code and stderr, a zero exit ends it successfully.
C9_PresentMatched_AsClaimed ==
    (Finished /\ RealRun /\ params.state = "present" /\ params.type # None
        /\ NameMatch(inv0) /\ oob = 0)
    => ModifyApplied

\* C9 (amended): the same of the specs main's team-slave checks let through;
\* a team-slave spec without master or ifname ends with a configuration error
\* and no Executor call instead.
C9_PresentMatched ==
    (Finished /\ RealRun /\ params.state = "present" /\ params.type # None
        /\ NameMatch(inv0) /\ oob = 0)
    => IF TeamSlaveRejected THEN ConfigError /\ calls = <<>> ELSE ModifyApplied

\* C9 witness: the Modify command was the only call and its failure ended the run
C9_Witness ==
    /\ Finished /\ RealRun /\ params.state = "present" /\ params.type = S("bond")
    /\ NameMatch(inv0) /\ oob = 0
    /\ Len(calls) = 1 /\ calls[1].rc # 0 /\ outcome.kind = "actuation"

\* C10: a non-dry run of a spec with state=present and no type ends with a
\* configuration error and no Executor call, through Modify when the name
\* matches a record and through Create when the existence check finds nothing.
C10_TypeRequired ==
    (Finished /\ RealRun /\ params.state = "present" /\ params.type = None)
    => /\ ConfigError
       /\ calls = <<>>
       /\ inv = inv0
       /\ NameMatch(inv0) => disp = {"modify"}
       /\ ~connection_exists(self, inv0) => disp = {"create"}

\* C10 witness: Create was chosen for a spec without type and the run ended
\* with the configuration error
C10_Witness ==
    /\ Finished /\ RealRun /\ params.state = "present" /\ params.type = None
    /\ disp = {"create"} /\ ConfigError /\ calls = <<>>

\* C11: a team-slave spec with master unset ends with a configuration error
\* before any Executor call, whatever the desired state, the mode of the run
\* and the inventory.
C11_TeamSlaveNeedsMaster ==
    (Finished /\ params.type = S("team-slave") /\ params.master = None)
    => (ConfigError /\ calls = <<>> /\ disp = {} /\ inv = inv0)

\* C11 witness: a team-slave spec without master, state=absent and a matching
\* record, ended with the configuration error
C11_Witness ==
    /\ Finished /\ params.type = S("team-slave") /\ params.master = None
    /\ params.ifname # None /\ params.state = "absent" /\ NameMatch(inv0)
    /\ ConfigError /\ calls = <<>>

\* C12: a non-dry run of a bond-slave spec with state=present and master
\* unset reports a configuration error and makes no Executor call, so no
\* argument list with a null master reaches the Executor.
C12_BondSlaveNeedsMaster ==
    (Finished /\ RealRun /\ params.type = S("bond-slave")
        /\ params.state = "present" /\ params.master = None)
    => /\ ConfigError
       /\ calls = <<>>

\* C14: when a two-phase Create's create call exits 0 and its modify call
\* does not, the run issues no Remove and the created connection stays; the
\* next non-dry run of the same spec finds it and dispatches Modify only.
C14_NoRollbackThenModify ==
    /\ (Finished /\ TwoPhaseTaken /\ calls[1].rc = 0 /\ calls[2].rc # 0)
       => /\ \A i \in 1..Len(calls) :
                ~(calls[i].islist /\ Len(calls[i].args) >= 3
                    /\ calls[i].args[3] \in {S("del"), S("delete"), S("down")})
          /\ NameMatch(inv)
    /\ (Finished /\ RealRun /\ prev.valid /\ prev.partial)
       => /\ NameMatch(inv0)
          /\ disp = {"modify"}

\* C14 witness: the run after a Create whose modify call failed dispatched
\* Modify on the connection that Create left behind
C14_Witness ==
    /\ Finished /\ RealRun /\ prev.valid /\ prev.partial /\ ~prev.check_mode
    /\ ~NameMatch(prev.inv0) /\ NameMatch(inv0)
    /\ disp = {"modify"} /\ Len(calls) = 1

\* C18: for a bridge or vlan spec both synthesizers return an empty list, so
\* a non-dry run with state=present passes no command to the Executor and
\* does not report changed=true (shown for the runs whose desired name is no
\* other field of a record).
C18_BridgeVlanNoop ==
    (Finished /\ RealRun /\ params.state = "present"
        /\ params.type \in {S("bridge"), S("vlan")}
        /\ connection_exists(self, inv0) = NameMatch(inv0))
    => /\ modify_connection(self) = <<>>
       /\ calls = <<>>
       /\ ~(Success /\ outcome.changed)

----------------------------------------------------------------------------
(* Vocabulary of the claims about the argument lists.                       *)

\* the documented bound on the number of DNS servers of one family
DnsCap == 3

\* the key/value pair of a field that is set, nothing for one that is not
IfSet(key, val) == IF val = None THEN <<>> ELSE <<S(key), val>>

\* the entries of l in order with one space between neighbours
SpaceJoined(l) ==
    [i \in 1..(2 * Len(l) - 1) |-> IF i % 2 = 1 THEN l[(i + 1) \div 2][1] ELSE " "]

HasToken(cmd, tok) == \E i \in 1..Len(cmd) : cmd[i] = tok

\* the token that follows the first occurrence of key
ValueAfter(cmd, key) ==
    cmd[(CHOOSE i \in 1..Len(cmd) : cmd[i] = S(key)) + 1]

\* which key token each optional field has in the create and modify lists
CreateKeys ==
    { <<"ip4", "ip4">>, <<"gw4", "gw4">>, <<"ip6", "ip6">>, <<"gw6", "gw6">>,
      <<"autoconnect", "autoconnect">>, <<"miimon", "miimon">>,
      <<"downdelay", "downdelay">>, <<"updelay", "updelay">>,
      <<"arp_interval", "arp-interval">>, <<"arp_ip_target", "arp-ip-target">>,
      <<"primary", "primary">> }

ModifyKeys ==
    { <<"ip4", "ipv4.address">>, <<"gw4", "ipv4.gateway">>, <<"dns4", "ipv4.dns">>,
      <<"ip6", "ipv6.address">>, <<"gw6", "ipv6.gateway">>, <<"dns6", "ipv6.dns">>,
      <<"mtu", "802-3-ethernet.mtu">>, <<"autoconnect", "autoconnect">> }

\* the ethernet spec of C16 and C17 in a non-dry run that found no record
EthernetCreateRun ==
    /\ Finished /\ RealRun
    /\ params.type = S("ethernet") /\ params.state = "present"
    /\ ~connection_exists(self, inv0)

\* con add type ethernet con-name <name> ifname <ifname, else name>
EthernetHead ==
    << nmcli_bin, S("con"), S("add"), S("type"), S("ethernet"),
       S("con-name"), params.conn_name, S("ifname"),
       IF params.ifname # None THEN params.ifname ELSE params.conn_name >>

\* C13: in the create and the modify list of every type, whatever optional
\* fields are set (master being given for the slave types), no token is null
\* and the key token of an unset optional field does not occur.
C13_NoUnsetKeysNoNulls ==
    (built.op \in {"create", "modify"}
        /\ (params.type \in SlaveTypes => params.master # None))
    => /\ \A i \in 1..Len(built.cmd) : built.cmd[i] # None
       /\ \A k \in (IF built.op = "create" THEN CreateKeys ELSE ModifyKeys) :
            self[k[1]] = None => ~HasToken(built.cmd, S(k[2]))

\* C15: a run that ends on a discovery failure has made no Executor call and
\* has left the inventory as it found it (shown for the runs whose desired
\* name is no other field of a record).
C15_DiscoveryBeforeExecution ==
    (outcome.kind = "discovery"
        /\ connection_exists(self, inv0) = NameMatch(inv0))
    => (Finished /\ calls = <<>> /\ inv = inv0)

\* C16: a non-dry run of an ethernet spec with state=present, no record found
\* and mtu, dns4, dns6 unset makes exactly one Executor call, with the tokens
\* con add type ethernet con-name <name> ifname <ifname, else name> and then
\* the ip4, gw4, ip6, gw6, autoconnect pairs of the set fields in that order;
\* when the call exits 0 the run reports changed=true.
C16_EthernetSingleCreate ==
    (EthernetCreateRun
        /\ params.mtu = None /\ params.dns4 = None /\ params.dns6 = None)
    => /\ disp = {"create"}
       /\ Len(calls) = 1
       /\ calls[1].islist
       /\ calls[1].args =
            EthernetHead
            \o IfSet("ip4", params.ip4) \o IfSet("gw4", params.gw4)
            \o IfSet("ip6", params.ip6) \o IfSet("gw6", params.gw6)
            \o (IF params.autoconnect = None THEN <<>>
                ELSE <<S("autoconnect"),
                       IF params.autoconnect = <<TRUE>> THEN S("yes") ELSE S("no")>>)
       /\ (calls[1].rc = 0 => (Success /\ outcome.changed))
       /\ (calls[1].rc # 0 => ~Success)

\* C16 witness: such a run with ifname unset, all four addresses and
\* autoconnect set, whose single call exited 0
C16_Witness ==
    /\ EthernetCreateRun
    /\ params.mtu = None /\ params.dns4 = None /\ params.dns6 = None
    /\ params.ifname = None /\ params.autoconnect = <<FALSE>>
    /\ params.ip4 # None /\ params.gw4 # None /\ params.ip6 # None /\ params.gw6 # None
    /\ Len(calls) = 1 /\ calls[1].rc = 0 /\ Success /\ outcome.changed

\* the ethernet spec of C17: ip4, gw4 and a dns4 list set, the rest unset
DnsEthernetRun ==
    /\ EthernetCreateRun
    /\ params.ip4 # None /\ params.gw4 # None
    /\ params.dns4 # None /\ params.dns4[1] # <<>>
    /\ params.ip6 = None /\ params.gw6 = None /\ params.dns6 = None
    /\ params.mtu = None /\ params.autoconnect = None

\* the create call carries no DNS key and no DNS server
NoDnsInCreate ==
    /\ ~HasToken(calls[1].args, S("ipv4.dns"))
    /\ ~HasToken(calls[1].args, S("dns4"))
    /\ ~HasToken(calls[1].args, SpaceJoined(params.dns4[1]))
    /\ \A j \in 1..Len(params.dns4[1]) : ~HasToken(calls[1].args, params.dns4[1][j])

\* C17 as stated: the modify call of the two-phase Create passes exactly
\* con mod <name> ipv4.dns <the dns4 entries joined by spaces>, without the
\* ip4 and gw4 already given to create, and the create call has no DNS token.
C17_ModifyOnlyDns_AsClaimed ==
    DnsEthernetRun
    => /\ Len(calls) >= 2
       /\ calls[2].args =
            << nmcli_bin, S("con"), S("mod"), params.conn_name,
               S("ipv4.dns"), SpaceJoined(params.dns4[1]) >>
       /\ NoDnsInCreate

\* C17 amended: the modify call passes con mod <name> ipv4.address <ip4>
\* ipv4.gateway <gw4> ipv4.dns <the dns4 entries joined by spaces>; ip4 and
\* gw4 are given again.  The create call has no DNS token.
C17_ModifyRepeatsAddress ==
    DnsEthernetRun
    => /\ Len(calls) >= 2
       /\ calls[1].args =
            EthernetHead \o <<S("ip4"), params.ip4, S("gw4"), params.gw4>>
       /\ calls[2].args =
            << nmcli_bin, S("con"), S("mod"), params.conn_name,
               S("ipv4.address"), params.ip4, S("ipv4.gateway"), params.gw4,
               S("ipv4.dns"), SpaceJoined(params.dns4[1]) >>
       /\ NoDnsInCreate

\* C17 witness: such a run made its create and modify calls with a dns4 list
\* of two entries
C17_Witness ==
    /\ DnsEthernetRun
    /\ Len(params.dns4[1]) = 2
    /\ disp = {"create"} /\ Len(calls) >= 2
    /\ calls[1].rc = 0 /\ calls[2].rc = 0

\* C19: in the modify lists the value after ipv4.dns is the dns4 entries in
\* input order joined by single spaces and the value after ipv6.dns is the
\* dns6 input, and neither carries more than DnsCap entries.
C19_DnsJoinedAndCapped ==
    (built.op = "modify"
        /\ params.type \in {S("team"), S("bond"), S("ethernet"), S("generic")})
    => /\ (params.dns4 # None /\ params.dns4[1] # <<>>)
          => /\ HasToken(built.cmd, S("ipv4.dns"))
             /\ ValueAfter(built.cmd, "ipv4.dns") = SpaceJoined(params.dns4[1])
             /\ (Len(ValueAfter(built.cmd, "ipv4.dns")) + 1) \div 2 <= DnsCap
       /\ params.dns6 # None
          => /\ HasToken(built.cmd, S("ipv6.dns"))
             /\ ValueAfter(built.cmd, "ipv6.dns") = params.dns6
             /\ (Len(ValueAfter(built.cmd, "ipv6.dns")) + 1) \div 2 <= DnsCap

\* C20: the bond create list is the list of the same spec without the bond
\* options, followed by the miimon, downdelay, updelay, arp-interval,
\* arp-ip-target, primary pairs of exactly those options that are set, each
\* with its own value, in that order.
C20_BondOptionsIndependent ==
    (built.op = "create" /\ params.type = S("bond"))
    => built.cmd =
         create_connection_bond([self EXCEPT !.miimon = None, !.downdelay = None,
                                    !.updelay = None, !.arp_interval = None,
                                    !.arp_ip_target = None, !.primary = None])
         \o IfSet("miimon", params.miimon)
         \o IfSet("downdelay", params.downdelay)
         \o IfSet("updelay", params.updelay)
         \o IfSet("arp-interval", params.arp_interval)
         \o IfSet("arp-ip-target", params.arp_ip_target)
         \o IfSet("primary", params.primary)

\* C21: a non-dry run with state=present and a type that passes main's checks
\* dispatches exactly one of Modify and Create, also when another actor adds or deletes
\* the named connection between the run's existence checks; it never
\* dispatches both, and never dispatches neither and reports changed=false.
C21_ExactlyOneDispatch ==
    (Finished /\ RealRun /\ params.state = "present" /\ params.type # None
        /\ ~check_issues(params))
    => /\ disp # {"modify", "create"}
       /\ disp # {}
       /\ ~(disp = {} /\ Success /\ ~outcome.changed)

\* C22: with no other actor at work, a successful non-dry run with
\* state=present has invoked the Executor and reports changed=true, whatever
\* the inventory held and whatever the runs before it did.
C22_SuccessMeansChanged ==
    (Finished /\ RealRun /\ params.state = "present" /\ Success)
    => /\ calls # <<>>
       /\ outcome.changed

\* C22 witness: a successful run right after a successful run of the same
\* spec went through Modify, left the inventory as it was and still reported
\* changed=true
C22_Witness ==
    /\ Finished /\ RealRun /\ params.state = "present" /\ Success
    /\ prev.valid /\ ~prev.check_mode /\ prev.kind = "ok" /\ prev.changed
    /\ NameMatch(inv0) /\ inv = inv0
    /\ disp = {"modify"} /\ Len(calls) = 1 /\ calls[1].rc = 0
    /\ outcome.changed

====
